---- MODULE Spec2Model ----
(***************************************************************************)
(* LinSpire: incremental, retractable linear feasibility solver (general   *)
(* simplex with bounds).  The solver state, the variable store with its    *)
(* reason-tagged bounds, the tableau with its watch index, the assertion   *)
(* entry points, the pivot loop of check() and retraction.                 *)
(***************************************************************************)
EXTENDS Integers, Sequences, FiniteSets, TLC

(***************************************************************************)
(* Bounds of the model.                                                    *)
(***************************************************************************)
\* number of public calls in one run
MaxOps == 8
\* number of variables created by the caller with new_var(lb, ub)
MaxUserVars == 2
MaxPivots == 6

(***************************************************************************)
(* utils::rational: exact fractions <<num, den>> in lowest terms with      *)
(* den > 0, and the two infinities <<1, 0>> and <<-1, 0>>.                 *)
(***************************************************************************)
Abs(n) == IF n < 0 THEN -n ELSE n

RECURSIVE GCD(_, _)
GCD(a, b) == IF b = 0 THEN a ELSE GCD(b, a % b)

rational(n, d) ==
    IF d = 0 THEN <<IF n > 0 THEN 1 ELSE -1, 0>>
    ELSE LET g == GCD(Abs(n), Abs(d))
             s == IF d < 0 THEN -1 ELSE 1
         IN  <<(s * n) \div g, (s * d) \div g>>

zero == <<0, 1>>
one == <<1, 1>>
positive_infinite == <<1, 0>>
negative_infinite == <<-1, 0>>

r_is_infinite(a) == a[2] = 0
r_is_zero(a) == a[1] = 0
r_is_positive(a) == a[1] > 0
r_is_negative(a) == a[1] < 0
r_neg(a) == <<-a[1], a[2]>>
r_add(a, b) ==
    IF a[2] = 0 THEN a
    ELSE IF b[2] = 0 THEN b
    ELSE rational(a[1] * b[2] + b[1] * a[2], a[2] * b[2])
r_sub(a, b) == r_add(a, r_neg(b))
r_mul(a, b) ==
    IF a[2] = 0 \/ b[2] = 0
    THEN <<IF (a[1] > 0) = (b[1] > 0) THEN 1 ELSE -1, 0>>
    ELSE rational(a[1] * b[1], a[2] * b[2])
r_div(a, b) ==
    IF a[2] = 0 THEN <<IF (a[1] > 0) = (b[1] > 0) THEN 1 ELSE -1, 0>>
    ELSE rational(a[1] * b[2], a[2] * b[1])
r_lt(a, b) ==
    IF a[2] = 0 /\ b[2] = 0 THEN a[1] < b[1]
    ELSE a[1] * b[2] < b[1] * a[2]
r_le(a, b) == a = b \/ r_lt(a, b)

(***************************************************************************)
(* utils::inf_rational: rat + inf * delta, ordered lexicographically.      *)
(***************************************************************************)
inf_rational(r, i) == [rat |-> r, inf |-> i]
ir(n) == inf_rational(<<n, 1>>, zero)
ir_zero == inf_rational(zero, zero)
ir_neg_inf == inf_rational(negative_infinite, zero)
ir_pos_inf == inf_rational(positive_infinite, zero)
ir_add(a, b) == inf_rational(r_add(a.rat, b.rat), r_add(a.inf, b.inf))
ir_sub(a, b) == inf_rational(r_sub(a.rat, b.rat), r_sub(a.inf, b.inf))
ir_mul(a, c) == inf_rational(r_mul(a.rat, c), r_mul(a.inf, c))
ir_div(a, c) == inf_rational(r_div(a.rat, c), r_div(a.inf, c))
ir_lt(a, b) == r_lt(a.rat, b.rat) \/ (a.rat = b.rat /\ r_lt(a.inf, b.inf))
ir_le(a, b) == a = b \/ ir_lt(a, b)
ir_gt(a, b) == ir_lt(b, a)
ir_ge(a, b) == ir_le(b, a)
ir_is_infinite(a) == r_is_infinite(a.rat)

(***************************************************************************)
(* utils::lin: a map from variables to non-zero coefficients (ordered by   *)
(* variable id) and a known term.                                          *)
(***************************************************************************)
MinOf(S) == CHOOSE x \in S : \A y \in S : x <= y
Size(f) == Cardinality(DOMAIN f)

lin(f, k) ==
    LET nz == {v \in DOMAIN f : f[v] # zero}
    IN  [vars |-> [v \in nz |-> f[v]], known_term |-> k]
lin_coef(l, v) == IF v \in DOMAIN l.vars THEN l.vars[v] ELSE zero
lin_add(l, m) ==
    lin([v \in DOMAIN l.vars \cup DOMAIN m.vars |-> r_add(lin_coef(l, v), lin_coef(m, v))],
        r_add(l.known_term, m.known_term))
lin_scale(l, c) ==
    lin([v \in DOMAIN l.vars |-> r_mul(l.vars[v], c)], r_mul(l.known_term, c))
lin_div(l, c) ==
    lin([v \in DOMAIN l.vars |-> r_div(l.vars[v], c)], r_div(l.known_term, c))
lin_sub(l, m) == lin_add(l, lin_scale(m, <<-1, 1>>))
lin_erase(l, x) == [l EXCEPT !.vars = [v \in DOMAIN l.vars \ {x} |-> l.vars[v]]]

\* to_string(lin): the terms in ascending variable order, then the known term
RECURSIVE terms_string(_, _)
terms_string(l, todo) ==
    IF todo = {} THEN <<>>
    ELSE LET v == MinOf(todo)
         IN  <<<<v, l.vars[v]>>>> \o terms_string(l, todo \ {v})
to_string(l) == terms_string(l, DOMAIN l.vars) \o <<l.known_term>>

(***************************************************************************)
(* var: the value and the two ordered maps bound value -> set of reasons.  *)
(***************************************************************************)
None == "none"

MaxKey(K) == CHOOSE k \in K : \A j \in K : ir_le(j, k)
MinKey(K) == CHOOSE k \in K : \A j \in K : ir_le(k, j)

\* var::var(lb, ub): the body only asserts lb < ub; no bound is stored
EmptyMap == [k \in {} |-> {}]
var(lb, ub) == [val |-> ir_zero, lbs |-> EmptyMap, ubs |-> EmptyMap]
var_pre(lb, ub) == ir_lt(lb, ub)

\* the least key taken for the effective lower bound
get_lb_least(x) == IF DOMAIN x.lbs = {} THEN ir_neg_inf ELSE MinKey(DOMAIN x.lbs)
get_lb(x) == IF DOMAIN x.lbs = {} THEN ir_neg_inf ELSE MaxKey(DOMAIN x.lbs)
get_ub(x) == IF DOMAIN x.ubs = {} THEN ir_pos_inf ELSE MinKey(DOMAIN x.ubs)

\* the key v inserted, the reason forgotten
add_key_only(m, v, reason) ==
    [k \in DOMAIN m \cup {v} |-> IF k \in DOMAIN m THEN m[k] ELSE {}]
\* the map m with reason added at key v (operator[] / emplace of std::map)
add_reason(m, v, reason) ==
    [k \in DOMAIN m \cup {v} |->
        IF k = v THEN (IF v \in DOMAIN m THEN m[v] ELSE {}) \cup {reason} ELSE m[k]]
\* the map m cut to the keys in keep, then v installed with no reason
anonymous(m, keep, v) ==
    [k \in keep \cup {v} |-> IF k \in keep THEN m[k] ELSE {}]
\* the key erased with the first reason that leaves it
del_reason_whole(m, v, reason) == [k \in DOMAIN m \ {v} |-> m[k]]
\* the map m with reason erased at key v, the key erased with its last reason
del_reason(m, v, reason) ==
    LET rs == m[v] \ {reason}
    IN  IF rs = {} THEN [k \in DOMAIN m \ {v} |-> m[k]]
        ELSE [m EXCEPT ![v] = rs]

var_set_lb_pre(x, v) == ir_le(v, get_ub(x))
var_set_lb(x, v, reason) ==
    IF reason # None
    THEN [x EXCEPT !.lbs = add_reason(x.lbs, v, reason)]
    ELSE \* erase [begin, upper_bound(v)): every key <= v
         [x EXCEPT !.lbs = anonymous(x.lbs, {k \in DOMAIN x.lbs : ir_gt(k, v)}, v)]
\* the reason left in place
var_unset_lb_skipped(x, v, reason) == x
\* the reason taken from the effective bound instead of the key v
var_unset_lb_effective(x, v, reason) ==
    [x EXCEPT !.lbs = del_reason(x.lbs, MaxKey(DOMAIN x.lbs), reason)]
var_unset_lb_pre(x, v) == v \in DOMAIN x.lbs
var_unset_lb(x, v, reason) == [x EXCEPT !.lbs = del_reason(x.lbs, v, reason)]

\* every upper bound installed as an anonymous one
var_set_ub_unreasoned(x, v, reason) ==
    [x EXCEPT !.ubs = anonymous(x.ubs, {k \in DOMAIN x.ubs : ir_lt(k, v)}, v)]
var_set_ub_pre(x, v) == ir_ge(v, get_lb(x))
var_set_ub(x, v, reason) ==
    IF reason # None
    THEN [x EXCEPT !.ubs = add_reason(x.ubs, v, reason)]
    ELSE \* erase [lower_bound(v), end): every key >= v
         [x EXCEPT !.ubs = anonymous(x.ubs, {k \in DOMAIN x.ubs : ir_lt(k, v)}, v)]
\* the reason left in place
var_unset_ub_skipped(x, v, reason) == x
var_unset_ub_pre(x, v) == v \in DOMAIN x.ubs
var_unset_ub(x, v, reason) == [x EXCEPT !.ubs = del_reason(x.ubs, v, reason)]

(***************************************************************************)
(* solver: the operations below take the solver state                      *)
(*   s = [vars, exprs, tableau, t_watches, cnfl, cons, fails]              *)
(* and give the state they leave.  vars, t_watches are indexed by the      *)
(* variable id (from 0); cons holds the lbs/ubs maps of each constraint;   *)
(* fails collects the assertions of the code that did not hold.            *)
(***************************************************************************)
failing(s, ok, name) == IF ok THEN s ELSE [s EXCEPT !.fails = @ \cup {name}]

is_basic(s, v) == v \in DOMAIN s.tableau
lb(s, x) == get_lb(s.vars[x])
ub(s, x) == get_ub(s.vars[x])
val(s, x) == s.vars[x].val

RECURSIVE sum_terms(_, _, _)
\* acc + the sum of the terms t[v], taken in ascending variable order
sum_terms(t, todo, acc) ==
    IF todo = {} THEN acc
    ELSE LET v == MinOf(todo)
         IN  sum_terms(t, todo \ {v}, ir_add(acc, t[v]))
\* the known term of the expression left out
lb_lin_unshifted(s, l) ==
    sum_terms([v \in DOMAIN l.vars |->
                  IF r_is_positive(l.vars[v]) THEN ir_mul(lb(s, v), l.vars[v])
                  ELSE ir_mul(ub(s, v), l.vars[v])],
              DOMAIN l.vars, ir_zero)
lb_lin(s, l) ==
    sum_terms([v \in DOMAIN l.vars |->
                  IF r_is_positive(l.vars[v]) THEN ir_mul(lb(s, v), l.vars[v])
                  ELSE ir_mul(ub(s, v), l.vars[v])],
              DOMAIN l.vars, inf_rational(l.known_term, zero))
\* the upper bound of every variable taken, whatever the sign of its coefficient
ub_lin_unsigned(s, l) ==
    sum_terms([v \in DOMAIN l.vars |-> ir_mul(ub(s, v), l.vars[v])],
              DOMAIN l.vars, inf_rational(l.known_term, zero))
ub_lin(s, l) ==
    sum_terms([v \in DOMAIN l.vars |->
                  IF r_is_positive(l.vars[v]) THEN ir_mul(ub(s, v), l.vars[v])
                  ELSE ir_mul(lb(s, v), l.vars[v])],
              DOMAIN l.vars, inf_rational(l.known_term, zero))
val_lin(s, l) ==
    sum_terms([v \in DOMAIN l.vars |-> ir_mul(val(s, v), l.vars[v])],
              DOMAIN l.vars, inf_rational(l.known_term, zero))

\* the bounds of the one expression l0 - l1, common variables cancelled
match_difference(s, l0, l1) ==
    ir_le(lb_lin(s, lin_sub(l0, l1)), ir_zero) /\ ir_ge(ub_lin(s, lin_sub(l0, l1)), ir_zero)
\* match(l0, l1): the bounds on l0 - l1, the interval of l0 less the interval
\* of l1, admit zero
match(s, l0, l1) ==
    ir_le(ir_sub(lb_lin(s, l0), ub_lin(s, l1)), ir_zero) /\
    ir_ge(ir_sub(ub_lin(s, l0), lb_lin(s, l1)), ir_zero)

\* new_var(lb, ub): the new variable has id vars.size()
new_var(s, lo, hi) ==
    LET x == Size(s.vars)
        s1 == failing(failing(s, ir_le(lo, hi), "new_var: lb <= ub"),
                      var_pre(lo, hi), "var: lb < ub")
    IN  [s1 EXCEPT !.vars = [i \in 0..x |-> IF i < x THEN s.vars[i] ELSE var(lo, hi)],
                   !.t_watches = [i \in 0..x |-> IF i < x THEN s.t_watches[i] ELSE {}]]

\* the row added, the watches of its variables left as they were
new_row_unwatched(s, x, l) ==
    LET s1 == failing(s, ~is_basic(s, x), "new_row: !is_basic(x)")
    IN  [s1 EXCEPT !.tableau = IF is_basic(s, x) THEN @
                               ELSE [r \in DOMAIN @ \cup {x} |-> IF r = x THEN l ELSE @[r]]]
\* new_row(x, l): every variable of l watches x, and x = l enters the tableau
new_row(s, x, l) ==
    LET s1 == failing(s, ~is_basic(s, x), "new_row: !is_basic(x)")
    IN  [s1 EXCEPT !.t_watches = [v \in DOMAIN @ |-> IF v \in DOMAIN l.vars THEN @[v] \cup {x} ELSE @[v]],
                   !.tableau = IF is_basic(s, x) THEN @
                               ELSE [r \in DOMAIN @ \cup {x} |-> IF r = x THEN l ELSE @[r]]]

\* a slack made for every call, the expressions already seen not looked up
new_var_lin_fresh(s, l) ==
    LET slack == Size(s.vars)
        s1 == new_var(s, lb_lin(s, l), ub_lin(s, l))
        s2 == [s1 EXCEPT !.vars[slack].val = val_lin(s, l),
                         !.exprs = [e \in DOMAIN @ \cup {to_string(l)} |->
                                       IF e = to_string(l) THEN slack ELSE @[e]]]
    IN  [s |-> new_row(s2, slack, l), x |-> slack]
\* new_var(lin): [s |-> the state left, x |-> the slack returned]
new_var_lin(s, l) ==
    LET s_expr == to_string(l)
        s0 == failing(s, Size(l.vars) > 1, "new_var: l.vars.size() > 1")
    IN  IF s_expr \in DOMAIN s.exprs
        THEN [s |-> s0, x |-> s.exprs[s_expr]]
        ELSE LET slack == Size(s.vars)
                 s1 == new_var(s0, lb_lin(s, l), ub_lin(s, l))
                 s2 == [s1 EXCEPT !.vars[slack].val = val_lin(s, l),
                                  !.exprs = [e \in DOMAIN @ \cup {s_expr} |->
                                                IF e = s_expr THEN slack ELSE @[e]]]
             IN  [s |-> new_row(s2, slack, l), x |-> slack]

\* tableau.at(r).vars.at(v) holds a term (else std::out_of_range in a noexcept function)
has_term(s, r, v) == r \in DOMAIN s.tableau /\ v \in DOMAIN s.tableau[r].vars
coef(s, r, v) == IF has_term(s, r, v) THEN s.tableau[r].vars[v] ELSE zero

\* the rows moved, the value of x_i left where it was
update_rows_only(s, x_i, v) ==
    LET d == ir_sub(v, val(s, x_i))
    IN  [s EXCEPT !.vars = [x \in DOMAIN @ |->
            IF x \in s.t_watches[x_i] /\ x # x_i
            THEN [@[x] EXCEPT !.val = ir_add(@, ir_mul(d, coef(s, x, x_i)))]
            ELSE @[x]]]
\* update(x_i, v): move the non-basic x_i to v and the rows watching it along
update(s, x_i, v) ==
    LET s1 == failing(failing(failing(s,
                  ~is_basic(s, x_i), "update: !is_basic(x_i)"),
                  ir_ge(v, lb(s, x_i)) /\ ir_le(v, ub(s, x_i)), "update: lb <= v <= ub"),
                  \A x_j \in s.t_watches[x_i] : has_term(s, x_j, x_i), "update: at")
        d == ir_sub(v, val(s, x_i))
    IN  [s1 EXCEPT !.vars = [x \in DOMAIN @ |->
            IF x = x_i THEN [@[x] EXCEPT !.val = v]
            ELSE IF x \in s.t_watches[x_i]
                 THEN [@[x] EXCEPT !.val = ir_add(@, ir_mul(d, coef(s, x, x_i)))]
                 ELSE @[x]]]

\* the row c_l of r rewritten with x_j replaced by cc * l (the inner loop of pivot)
rewritten(c_l, x_j, l) ==
    LET cc == c_l.vars[x_j]
        rest == lin_erase(c_l, x_j)
    IN  [vars |-> lin_add(rest, lin_scale([l EXCEPT !.known_term = zero], cc)).vars,
         known_term |-> c_l.known_term]

\* pivot(x_i, x_j): x_i leaves the basis, x_j enters it
pivot(s, x_i, x_j) ==
    LET row == s.tableau[x_i]
        s1 == failing(failing(failing(failing(s,
                  s.t_watches[x_i] = {}, "pivot: t_watches.at(x_i).empty()"),
                  \A v \in DOMAIN row.vars : x_i \in s.t_watches[v], "pivot: t_watches.at(v).count(x_i)"),
                  \A r \in s.t_watches[x_j] \ {x_i} : has_term(s, r, x_j), "pivot: at"),
                  \A r \in s.t_watches[x_j] \ {x_i} :
                      has_term(s, r, x_j) => s.tableau[r].known_term = zero,
                  "pivot: c_l.known_term == 0")
        \* we remove the row from the watches
        w1 == [v \in DOMAIN s.t_watches |->
                  IF v \in DOMAIN row.vars THEN s.t_watches[v] \ {x_i} ELSE s.t_watches[v]]
        \* we rewrite x_i = ... as x_j = ...
        cc == row.vars[x_j]
        l0 == lin_div(lin_erase(row, x_j), r_neg(cc))
        l == [l0 EXCEPT !.vars = [v \in DOMAIN @ \cup {x_i} |->
                                     IF v \in DOMAIN @ THEN @[v] ELSE r_div(one, cc)]]
        \* we update the rows that contain x_j
        rows == {r \in w1[x_j] : has_term(s, r, x_j)}
        tab == [r \in DOMAIN s.tableau \ {x_i} |->
                   IF r \in rows THEN rewritten(s.tableau[r], x_j, l) ELSE s.tableau[r]]
        w2 == [v \in DOMAIN w1 |->
                  IF v = x_j THEN {}
                  ELSE IF v \in DOMAIN l.vars
                       THEN (w1[v] \cup {r \in rows : v \notin DOMAIN s.tableau[r].vars})
                            \ {r \in rows : v \in DOMAIN s.tableau[r].vars /\ v \notin DOMAIN tab[r].vars}
                       ELSE w1[v]]
    IN  new_row([s1 EXCEPT !.tableau = tab, !.t_watches = w2], x_j, l)

\* x_j and its rows moved by theta, x_i left at the value it had
pivot_and_update_unmoved(s, x_i, x_j, v) ==
    LET theta == ir_div(ir_sub(v, val(s, x_i)), s.tableau[x_i].vars[x_j])
        s2 == [s EXCEPT !.vars = [x \in DOMAIN @ |->
                  IF x = x_i THEN @[x]
                  ELSE IF x = x_j THEN [@[x] EXCEPT !.val = ir_add(@, theta)]
                  ELSE IF x \in s.t_watches[x_j]
                       THEN [@[x] EXCEPT !.val = ir_add(@, ir_mul(theta, coef(s, x, x_j)))]
                       ELSE @[x]]]
    IN  pivot(s2, x_i, x_j)
\* pivot_and_update(x_i, x_j, v): x_i takes the value v, x_j and its rows move by theta
pivot_and_update(s, x_i, x_j, v) ==
    LET s1 == failing(failing(failing(failing(s,
                  is_basic(s, x_i), "pivot_and_update: is_basic(x_i)"),
                  ~is_basic(s, x_j), "pivot_and_update: !is_basic(x_j)"),
                  ir_ge(v, lb(s, x_j)) /\ ir_le(v, ub(s, x_j)), "pivot_and_update: lb(x_j) <= v <= ub(x_j)"),
                  \A x_k \in s.t_watches[x_j] \ {x_i} : has_term(s, x_k, x_j), "pivot_and_update: at")
        theta == ir_div(ir_sub(v, val(s, x_i)), s.tableau[x_i].vars[x_j])
        s2 == [s1 EXCEPT !.vars = [x \in DOMAIN @ |->
                  IF x = x_i THEN [@[x] EXCEPT !.val = v]
                  ELSE IF x = x_j THEN [@[x] EXCEPT !.val = ir_add(@, theta)]
                  ELSE IF x \in s.t_watches[x_j]
                       THEN [@[x] EXCEPT !.val = ir_add(@, ir_mul(theta, coef(s, x, x_j)))]
                       ELSE @[x]]]
    IN  pivot(s2, x_i, x_j)

(***************************************************************************)
(* Bounds with reasons.  A constraint handle collects the (x, v) pairs the *)
(* solver installed on its behalf; the operations below give              *)
(* [s |-> the state left, ok |-> the value returned].                      *)
(***************************************************************************)
record_lb(s, reason, x, v) == [s EXCEPT !.cons[reason].lbs = @ \cup {<<x, v>>}]
record_ub(s, reason, x, v) == [s EXCEPT !.cons[reason].ubs = @ \cup {<<x, v>>}]

\* vars[x].set_lb(v, reason), then the value of a non-basic x is moved up to v
install_lb(s, x, v, reason) ==
    LET s1 == failing(s, var_set_lb_pre(s.vars[x], v), "var::set_lb: v <= get_ub()")
        s2 == [s1 EXCEPT !.vars[x] = var_set_lb(@, v, reason)]
    IN  IF ir_lt(val(s2, x), v) /\ ~is_basic(s2, x) THEN update(s2, x, v) ELSE s2
install_ub(s, x, v, reason) ==
    LET s1 == failing(s, var_set_ub_pre(s.vars[x], v), "var::set_ub: v >= get_lb()")
        s2 == [s1 EXCEPT !.vars[x] = var_set_ub(@, v, reason)]
    IN  IF ir_gt(val(s2, x), v) /\ ~is_basic(s2, x) THEN update(s2, x, v) ELSE s2

\* the bound tested and never stored
set_lb_anonymous_kept(s, x, v) == [s |-> s, ok |-> ~ir_gt(v, ub(s, x))]
\* a refused bound explained at once by the reasons of the upper bound it crosses
set_lb_anonymous_explaining(s, x, v) ==
    IF ir_le(v, lb(s, x)) THEN [s |-> s, ok |-> TRUE]
    ELSE IF ir_gt(v, ub(s, x))
    THEN [s |-> [s EXCEPT !.cnfl = IF DOMAIN s.vars[x].ubs = {} THEN {} ELSE s.vars[x].ubs[ub(s, x)]],
          ok |-> FALSE]
    ELSE [s |-> install_lb(s, x, v, None), ok |-> TRUE]
\* a bound above the upper bound installed like any other
set_lb_anonymous_untested(s, x, v) ==
    IF ir_le(v, lb(s, x)) THEN [s |-> s, ok |-> TRUE]
    ELSE [s |-> install_lb(s, x, v, None), ok |-> TRUE]
\* set_lb(x, v) without a reason
set_lb_anonymous(s, x, v) ==
    IF ir_le(v, lb(s, x)) THEN [s |-> s, ok |-> TRUE]
    ELSE IF ir_gt(v, ub(s, x)) THEN [s |-> s, ok |-> FALSE]
    ELSE [s |-> install_lb(s, x, v, None), ok |-> TRUE]
\* the bound tested and never stored
set_ub_anonymous_kept(s, x, v) == [s |-> s, ok |-> ~ir_lt(v, lb(s, x))]
\* a bound equal to the lower bound refused too
set_ub_anonymous_closed(s, x, v) ==
    IF ir_ge(v, ub(s, x)) THEN [s |-> s, ok |-> TRUE]
    ELSE IF ir_le(v, lb(s, x)) THEN [s |-> s, ok |-> FALSE]
    ELSE [s |-> install_ub(s, x, v, None), ok |-> TRUE]
\* set_ub(x, v) without a reason
set_ub_anonymous(s, x, v) ==
    IF ir_ge(v, ub(s, x)) THEN [s |-> s, ok |-> TRUE]
    ELSE IF ir_lt(v, lb(s, x)) THEN [s |-> s, ok |-> FALSE]
    ELSE [s |-> install_ub(s, x, v, None), ok |-> TRUE]

\* set_lb(x, v, reason): a dominated bound is recorded too; nothing is inserted on failure
set_lb_reason(s, x, v, reason) ==
    IF ir_gt(v, ub(s, x)) THEN [s |-> s, ok |-> FALSE]
    ELSE [s |-> install_lb(record_lb(s, reason, x, v), x, v, reason), ok |-> TRUE]
set_ub_reason(s, x, v, reason) ==
    IF ir_lt(v, lb(s, x)) THEN [s |-> s, ok |-> FALSE]
    ELSE [s |-> install_ub(record_ub(s, reason, x, v), x, v, reason), ok |-> TRUE]

set_lb(s, x, v, reason) ==
    IF reason = None THEN set_lb_anonymous(s, x, v) ELSE set_lb_reason(s, x, v, reason)
set_ub(s, x, v, reason) ==
    IF reason = None THEN set_ub_anonymous(s, x, v) ELSE set_ub_reason(s, x, v, reason)

(***************************************************************************)
(* The assertion entry points.                                             *)
(***************************************************************************)
RECURSIVE substitute(_, _, _)
\* [s, expr]: the basic variables among vs replaced in expr by their rows
substitute(s, expr, vs) ==
    IF vs = {} THEN [s |-> s, expr |-> expr]
    ELSE LET v == MinOf(vs)
         IN  IF ~is_basic(s, v) THEN substitute(s, expr, vs \ {v})
             ELSE IF v \notin DOMAIN expr.vars
                  THEN substitute(failing(s, FALSE, "new_eq/new_lt: expr.vars.at(v)"), expr, vs \ {v})
                  ELSE substitute(s,
                                  lin_add(lin_erase(expr, v), lin_scale(s.tableau[v], expr.vars[v])),
                                  vs \ {v})

new_eq(s, lhs, rhs, reason) ==
    LET sub == substitute(s, lin_sub(lhs, rhs), DOMAIN lin_sub(lhs, rhs).vars)
        expr == sub.expr
    IN  IF Size(expr.vars) = 0 THEN [s |-> sub.s, ok |-> r_is_zero(expr.known_term)]
        ELSE LET one_var == Size(expr.vars) = 1
                 nv == IF one_var THEN [s |-> sub.s, x |-> MinOf(DOMAIN expr.vars)]
                       ELSE new_var_lin(sub.s, [expr EXCEPT !.known_term = zero])
                 c_right == IF one_var
                            THEN ir_div(inf_rational(r_neg(expr.known_term), zero), expr.vars[nv.x])
                            ELSE inf_rational(r_neg(expr.known_term), zero)
                 lo == set_lb(nv.s, nv.x, c_right, reason)
             IN  IF lo.ok THEN set_ub(lo.s, nv.x, c_right, reason) ELSE lo

new_lt(s, lhs, rhs, strict, reason) ==
    LET sub == substitute(s, lin_sub(lhs, rhs), DOMAIN lin_sub(lhs, rhs).vars)
        expr == sub.expr
        eps == IF strict THEN <<-1, 1>> ELSE zero
    IN  IF Size(expr.vars) = 0
        THEN [s |-> sub.s,
              ok |-> r_is_negative(expr.known_term) \/ (strict /\ r_is_zero(expr.known_term))]
        ELSE IF Size(expr.vars) = 1
        THEN LET x == MinOf(DOMAIN expr.vars)
                 c == expr.vars[x]
                 c_right == ir_div(inf_rational(r_neg(expr.known_term), eps), c)
             IN  IF r_is_positive(c) THEN set_ub(sub.s, x, c_right, reason)
                 ELSE set_lb(sub.s, x, c_right, reason)
        ELSE LET c_right == inf_rational(r_neg(expr.known_term), eps)
                 nv == new_var_lin(sub.s, [expr EXCEPT !.known_term = zero])
             IN  set_ub(nv.s, nv.x, c_right, reason)

new_gt(s, lhs, rhs, strict, reason) == new_lt(s, rhs, lhs, strict, reason)

(***************************************************************************)
(* Retraction and replay of a constraint handle.                           *)
(***************************************************************************)
\* the first pair of a recorded mapping: least variable, then least value
first_pair(ps) ==
    CHOOSE p \in ps : \A q \in ps : p[1] < q[1] \/ (p[1] = q[1] /\ ir_le(p[2], q[2]))

RECURSIVE unset_lbs(_, _, _)
unset_lbs(s, c, ps) ==
    IF ps = {} THEN s
    ELSE LET p == first_pair(ps)
             s1 == IF var_unset_lb_pre(s.vars[p[1]], p[2])
                   THEN [s EXCEPT !.vars[p[1]] = var_unset_lb(@, p[2], c)]
                   ELSE failing(s, FALSE, "var::unset_lb: lbs.find(v) != lbs.end()")
         IN  unset_lbs(s1, c, ps \ {p})
RECURSIVE unset_ubs(_, _, _)
unset_ubs(s, c, ps) ==
    IF ps = {} THEN s
    ELSE LET p == first_pair(ps)
             s1 == IF var_unset_ub_pre(s.vars[p[1]], p[2])
                   THEN [s EXCEPT !.vars[p[1]] = var_unset_ub(@, p[2], c)]
                   ELSE failing(s, FALSE, "var::unset_ub: ubs.find(v) != ubs.end()")
         IN  unset_ubs(s1, c, ps \ {p})

\* the bounds of c unset, the stored conflict left as check() filled it
retract_bounds_only(s, c) == unset_ubs(unset_lbs(s, c, s.cons[c].lbs), c, s.cons[c].ubs)
\* retract(c): every bound recorded in c is unset; c leaves the stored conflict
retract(s, c) ==
    LET s1 == unset_ubs(unset_lbs(s, c, s.cons[c].lbs), c, s.cons[c].ubs)
    IN  [s1 EXCEPT !.cnfl = @ \ {c}]

RECURSIVE replay_lbs(_, _, _)
replay_lbs(s, c, ps) ==
    IF ps = {} THEN [s |-> s, ok |-> TRUE]
    ELSE LET p == first_pair(ps)
             r == set_lb(s, p[1], p[2], c)
         IN  IF r.ok THEN replay_lbs(r.s, c, ps \ {p}) ELSE r
RECURSIVE replay_ubs(_, _, _)
replay_ubs(s, c, ps) ==
    IF ps = {} THEN [s |-> s, ok |-> TRUE]
    ELSE LET p == first_pair(ps)
             r == set_ub(s, p[1], p[2], c)
         IN  IF r.ok THEN replay_ubs(r.s, c, ps \ {p}) ELSE r

\* add_constraint(c): the recorded bounds are installed again, up to the first failure
add_constraint(s, c) ==
    LET lo == replay_lbs(s, c, s.cons[c].lbs)
    IN  IF lo.ok THEN replay_ubs(lo.s, c, s.cons[c].ubs) ELSE lo

(***************************************************************************)
(* check(): one iteration of the pivot loop.                               *)
(***************************************************************************)
\* the upper bound left untested
out_of_bounds_below(s, x) == ir_lt(val(s, x), lb(s, x))
out_of_bounds(s, x) == ir_lt(val(s, x), lb(s, x)) \/ ir_gt(val(s, x), ub(s, x))
violating(s) == {x \in DOMAIN s.tableau : out_of_bounds(s, x)}

\* the variables with a negative coefficient left out
can_increase_positive(s, l) ==
    {v \in DOMAIN l.vars : r_is_positive(l.vars[v]) /\ ir_lt(val(s, v), ub(s, v))}
\* every variable of the row taken as free to move
can_decrease_any(s, l) == DOMAIN l.vars
\* the non-basic variables of the row l that can raise (lower) the basic variable
can_increase(s, l) ==
    {v \in DOMAIN l.vars : \/ r_is_positive(l.vars[v]) /\ ir_lt(val(s, v), ub(s, v))
                           \/ r_is_negative(l.vars[v]) /\ ir_gt(val(s, v), lb(s, v))}
can_decrease(s, l) ==
    {v \in DOMAIN l.vars : \/ r_is_positive(l.vars[v]) /\ ir_gt(val(s, v), lb(s, v))
                           \/ r_is_negative(l.vars[v]) /\ ir_lt(val(s, v), ub(s, v))}

reasons_lb(s, x) == IF DOMAIN s.vars[x].lbs = {} THEN {} ELSE s.vars[x].lbs[lb(s, x)]
reasons_ub(s, x) == IF DOMAIN s.vars[x].ubs = {} THEN {} ELSE s.vars[x].ubs[ub(s, x)]

\* the reasons of the violated bound of x_i and of the bounds that block its row
conflict_below(s, x_i) ==
    reasons_lb(s, x_i) \cup
    UNION {IF r_is_positive(s.tableau[x_i].vars[v]) THEN reasons_ub(s, v) ELSE reasons_lb(s, v) :
           v \in DOMAIN s.tableau[x_i].vars}
conflict_above(s, x_i) ==
    reasons_ub(s, x_i) \cup
    UNION {IF r_is_positive(s.tableau[x_i].vars[v]) THEN reasons_lb(s, v) ELSE reasons_ub(s, v) :
           v \in DOMAIN s.tableau[x_i].vars}

\* the bounds of the row that proves infeasibility dropped with the report
check_step_unbinding(s) ==
    IF violating(s) = {} THEN [s |-> s, done |-> TRUE, ok |-> TRUE]
    ELSE LET x_i == MinOf(violating(s))
             l == s.tableau[x_i]
             v == IF ir_lt(val(s, x_i), lb(s, x_i)) THEN lb(s, x_i) ELSE ub(s, x_i)
             xs == IF ir_lt(val(s, x_i), lb(s, x_i)) THEN can_increase(s, l) ELSE can_decrease(s, l)
         IN  IF xs # {}
             THEN [s |-> pivot_and_update(s, x_i, MinOf(xs), v), done |-> FALSE, ok |-> TRUE]
             ELSE [s |-> [s EXCEPT !.vars[x_i].lbs = <<>>, !.vars[x_i].ubs = <<>>],
                   done |-> TRUE, ok |-> FALSE]

\* the loop left after its first pivot, the rows not looked at again
check_step_once(s) ==
    IF violating(s) = {} THEN [s |-> s, done |-> TRUE, ok |-> TRUE]
    ELSE LET x_i == MinOf(violating(s))
             l == s.tableau[x_i]
             below == ir_lt(val(s, x_i), lb(s, x_i))
             xs == IF below THEN can_increase(s, l) ELSE can_decrease(s, l)
         IN  IF xs # {}
             THEN [s |-> pivot_and_update(s, x_i, MinOf(xs), IF below THEN lb(s, x_i) ELSE ub(s, x_i)),
                   done |-> TRUE, ok |-> TRUE]
             ELSE [s |-> [s EXCEPT !.cnfl = IF below THEN conflict_below(s, x_i)
                                             ELSE conflict_above(s, x_i)],
                   done |-> TRUE, ok |-> FALSE]

\* [s |-> the state left, done |-> check returns, ok |-> the value returned]
check_step(s) ==
    IF violating(s) = {} THEN [s |-> s, done |-> TRUE, ok |-> TRUE]
    ELSE LET x_i == MinOf(violating(s))
             l == s.tableau[x_i]
         IN  IF ir_lt(val(s, x_i), lb(s, x_i))
             THEN IF can_increase(s, l) # {}
                  THEN [s |-> pivot_and_update(s, x_i, MinOf(can_increase(s, l)), lb(s, x_i)),
                        done |-> FALSE, ok |-> TRUE]
                  ELSE [s |-> [s EXCEPT !.cnfl = conflict_below(s, x_i)],
                        done |-> TRUE, ok |-> FALSE]
             ELSE IF can_decrease(s, l) # {}
                  THEN [s |-> pivot_and_update(s, x_i, MinOf(can_decrease(s, l)), ub(s, x_i)),
                        done |-> FALSE, ok |-> TRUE]
                  ELSE [s |-> [s EXCEPT !.cnfl = conflict_above(s, x_i)],
                        done |-> TRUE, ok |-> FALSE]

RECURSIVE check_all(_, _)
\* check(): the loop run until it returns, for at most n pivots
check_all(s, n) ==
    LET r == check_step(s)
    IN  IF r.done \/ n = 0 THEN r ELSE check_all(r.s, n - 1)

(***************************************************************************)
(* The state: the solver's fields, the constraint handles of the caller,   *)
(* and the position of the caller.                                         *)
(***************************************************************************)
VARIABLES
    vars,       \* solver::vars, by variable id
    exprs,      \* solver::exprs: to_string(lin) -> slack
    tableau,    \* solver::tableau: basic variable -> row
    t_watches,  \* solver::t_watches, by variable id
    cnfl,       \* solver::cnfl
    cons,       \* the lbs / ubs recorded in each constraint handle
    fails,      \* the assertions of the code that failed in the last step
    pc,         \* "idle", "check" (inside the loop of check()) or "aborted"
    last,       \* the last public call and what it returned
    nops,       \* the number of public calls made
    asserted,   \* the constraints in force: asserted with success and not retracted
    meaning,    \* for each handle, the constraints asserted with it
    program,    \* what the caller may call: its assertions and its expressions
    pivots      \* the number of pivots the running check() has made

state == <<vars, exprs, tableau, t_watches, cnfl, cons, fails, pc, last, nops, asserted, meaning, program, pivots>>

Constraints == {"c0", "c1", "c2"}
Reasons == Constraints \cup {None}

\* the solver as the operations above take it
Solver ==
    [vars |-> vars, exprs |-> exprs, tableau |-> tableau, t_watches |-> t_watches,
     cnfl |-> cnfl, cons |-> cons, fails |-> {}]

\* the solver is left as s
Leaves(s) ==
    /\ vars' = s.vars
    /\ exprs' = s.exprs
    /\ tableau' = s.tableau
    /\ t_watches' = s.t_watches
    /\ cnfl' = s.cnfl
    /\ cons' = s.cons
    /\ fails' = s.fails

(***************************************************************************)
(* What the caller passes.                                                 *)
(***************************************************************************)
slacks == {exprs[e] : e \in DOMAIN exprs}
user_vars == DOMAIN vars \ slacks

x0 == 0
x1 == 1
term(x, n) == lin([v \in {x} |-> <<n, 1>>], zero)
const(k) == lin(EmptyMap, <<k, 1>>)
plus(l, m) == lin_add(l, m)

\* the bounds passed to new_var(lb, ub)
VarBounds == {<<ir_neg_inf, ir_pos_inf>>, <<ir(1), ir(2)>>}
\* the expressions passed to new_var(lin)
SlackLins ==
    {plus(term(x0, 1), term(x1, 1)),
     plus(term(x0, -1), term(x1, 1)),
     plus(plus(term(x0, 1), term(x1, 1)), const(1)),
     plus(term(x0, 1), term(2, 1))}
\* an assertion the caller makes: it states one constraint with its handle
call(op, lhs, rhs, strict, reason) ==
    [op |-> op, lhs |-> lhs, rhs |-> rhs, strict |-> strict, reason |-> reason]
x_plus_y == plus(term(x0, 1), term(x1, 1))
y_minus_x == plus(term(x0, -1), term(x1, 1))
x_ge_0_c0 == call("new_gt", term(x0, 1), const(0), FALSE, "c0")
x_ge_1_c0 == call("new_gt", term(x0, 1), const(1), FALSE, "c0")
x_ge_1_c1 == call("new_gt", term(x0, 1), const(1), FALSE, "c1")
x_le_0 == call("new_lt", term(x0, 1), const(0), FALSE, None)
x_lt_1 == call("new_lt", term(x0, 1), const(1), TRUE, None)
x_eq_0_c2 == call("new_eq", term(x0, 1), const(0), FALSE, "c2")
sum_ge_1_c0 == call("new_gt", x_plus_y, const(1), FALSE, "c0")
sum_le_0_c2 == call("new_lt", x_plus_y, const(0), FALSE, "c2")
diff_le_0 == call("new_lt", y_minus_x, const(0), FALSE, None)
diff_ge_1 == call("new_gt", y_minus_x, const(1), FALSE, None)
x_le_0_c0 == call("new_lt", term(x0, 1), const(0), FALSE, "c0")
x_le_1_c0 == call("new_lt", term(x0, 1), const(1), FALSE, "c0")
x_le_0_c1 == call("new_lt", term(x0, 1), const(0), FALSE, "c1")
x_ge_1 == call("new_gt", term(x0, 1), const(1), FALSE, None)
x_lt_0 == call("new_lt", term(x0, 1), const(0), TRUE, None)
eq_0_0 == call("new_eq", const(0), const(0), FALSE, None)
lt_1_0_strict == call("new_lt", const(1), const(0), TRUE, None)
lt_0_0 == call("new_lt", const(0), const(0), FALSE, None)
lt_0_0_strict == call("new_lt", const(0), const(0), TRUE, None)
lt_0_1 == call("new_lt", const(0), const(1), FALSE, "c0")
x_lt_x == call("new_lt", term(x0, 1), term(x0, 1), TRUE, None)
two_x_plus_3_eq_7 == call("new_eq", plus(term(x0, 2), const(3)), const(7), FALSE, None)
y_le_0 == call("new_lt", term(x1, 1), const(0), FALSE, None)
two_x_lt_1 == call("new_lt", term(x0, 2), const(1), TRUE, None)
two_x_ge_1 == call("new_gt", term(x0, 2), const(1), FALSE, None)
minus_two_x_lt_minus_1_c1 == call("new_lt", term(x0, -2), const(-1), TRUE, "c1")
y_ge_1_c0 == call("new_gt", term(x1, 1), const(1), FALSE, "c0")
y_le_0_c1 == call("new_lt", term(x1, 1), const(0), FALSE, "c1")
sum_le_0 == call("new_lt", x_plus_y, const(0), FALSE, None)
x_ge_0 == call("new_gt", term(x0, 1), const(0), FALSE, None)
x_le_10 == call("new_lt", term(x0, 1), const(10), FALSE, None)
x_minus_5 == plus(term(x0, 1), const(-5))
x_plus_20 == plus(term(x0, 1), const(20))

\* the callers: each draws its calls from its own assertions and expressions
caller(calls, lins) == [calls |-> calls, lins |-> lins, matches |-> {}]
\* a caller that also compares expressions with match
matcher(calls, matches) == [calls |-> calls, lins |-> {}, matches |-> matches]
Programs ==
    {caller({x_ge_0_c0, x_ge_1_c0, x_ge_1_c1, x_le_0, x_lt_1, x_eq_0_c2}, {}),
     caller({sum_ge_1_c0, x_ge_1_c1, sum_le_0_c2, x_le_0}, {}),
     caller({diff_le_0, diff_ge_1, sum_ge_1_c0, x_le_0}, {}),
     caller({sum_ge_1_c0, x_ge_1_c1}, SlackLins),
     caller({x_le_0_c0, x_le_1_c0, x_le_0_c1, x_ge_1}, {}),
     caller({x_ge_1_c0, y_ge_1_c0, y_le_0_c1}, {}),
     caller({x_ge_1_c1, x_eq_0_c2, x_lt_0}, {}),
     caller({eq_0_0, lt_1_0_strict, lt_0_0, lt_0_0_strict, lt_0_1, x_lt_x}, {}),
     caller({sum_ge_1_c0, y_le_0, x_eq_0_c2, two_x_plus_3_eq_7}, {}),
     caller({two_x_lt_1, two_x_ge_1, minus_two_x_lt_minus_1_c1, x_lt_1, x_le_0_c0}, {}),
     caller({sum_le_0_c2, x_ge_1_c1}, {x_plus_y}),
     caller({x_ge_1_c1, x_eq_0_c2, y_ge_1_c0, sum_le_0}, {}),
     caller({x_le_1_c0, x_le_0, x_ge_0_c0, x_ge_1}, {}),
     matcher({x_ge_0, x_le_10},
             {<<term(x0, 1), x_minus_5>>, <<term(x0, 1), x_plus_20>>, <<x_minus_5, term(x0, 1)>>,
              <<term(x0, 1), const(10)>>, <<term(x0, 1), const(11)>>})}

\* the constraint lhs - rhs (rel) 0 that an assertion states
sem(lhs, rhs, rel, reason) == [e |-> lin_sub(lhs, rhs), rel |-> rel, c |-> reason]

Init ==
    /\ vars = <<>>
    /\ exprs = <<>>
    /\ tableau = <<>>
    /\ t_watches = <<>>
    /\ cnfl = {}
    /\ cons = [c \in Constraints |-> [lbs |-> {}, ubs |-> {}]]
    /\ fails = {}
    /\ pc = "idle"
    /\ last = [op |-> "solver"]
    /\ nops = 0
    /\ asserted = {}
    /\ meaning = [c \in Constraints |-> {}]
    /\ program \in Programs
    /\ pivots = 0

(***************************************************************************)
(* The public operations.                                                  *)
(***************************************************************************)
Idle == pc = "idle" /\ nops < MaxOps

NewVar(b) ==
    /\ Idle
    /\ Cardinality(user_vars) < MaxUserVars
    /\ Leaves(new_var(Solver, b[1], b[2]))
    /\ last' = [op |-> "new_var", ret |-> Size(vars), lo |-> b[1], hi |-> b[2]]
    /\ nops' = nops + 1
    /\ UNCHANGED <<pc, asserted, meaning, program, pivots>>

NewVarLin(l) ==
    /\ Idle
    /\ DOMAIN l.vars \subseteq DOMAIN vars
    /\ LET r == new_var_lin(Solver, l)
       IN  /\ Leaves(r.s)
           /\ last' = [op |-> "new_var_lin", ret |-> r.x, l |-> l]
    /\ nops' = nops + 1
    /\ UNCHANGED <<pc, asserted, meaning, program, pivots>>

\* the assertion a that returned r, stating the constraint k with the handle reason
Asserted(r, a, k, reason) ==
    /\ Leaves(r.s)
    /\ last' = [op |-> a.op, ret |-> r.ok, a |-> a]
    /\ nops' = nops + 1
    /\ asserted' = IF r.ok THEN asserted \cup {k} ELSE asserted
    /\ meaning' = IF r.ok /\ reason # None THEN [meaning EXCEPT ![reason] = @ \cup {k}] ELSE meaning
    /\ UNCHANGED <<pc, program, pivots>>

NewEq(a) ==
    /\ Idle
    /\ a.op = "new_eq"
    /\ DOMAIN a.lhs.vars \subseteq DOMAIN vars
    /\ Asserted(new_eq(Solver, a.lhs, a.rhs, a.reason), a,
                sem(a.lhs, a.rhs, "eq", a.reason), a.reason)

NewLt(a) ==
    /\ Idle
    /\ a.op = "new_lt"
    /\ DOMAIN a.lhs.vars \subseteq DOMAIN vars
    /\ Asserted(new_lt(Solver, a.lhs, a.rhs, a.strict, a.reason), a,
                sem(a.lhs, a.rhs, IF a.strict THEN "lt" ELSE "le", a.reason), a.reason)

NewGt(a) ==
    /\ Idle
    /\ a.op = "new_gt"
    /\ DOMAIN a.lhs.vars \subseteq DOMAIN vars
    /\ Asserted(new_gt(Solver, a.lhs, a.rhs, a.strict, a.reason), a,
                sem(a.rhs, a.lhs, IF a.strict THEN "lt" ELSE "le", a.reason), a.reason)

AddConstraint(c) ==
    /\ Idle
    /\ LET r == add_constraint(Solver, c)
       IN  /\ Leaves(r.s)
           /\ last' = [op |-> "add_constraint", ret |-> r.ok, c |-> c]
           /\ asserted' = IF r.ok THEN asserted \cup meaning[c] ELSE asserted
    /\ nops' = nops + 1
    /\ UNCHANGED <<pc, meaning, program, pivots>>

\* unsetting a bound that is not there dereferences end(): the call may crash
Retract(c) ==
    /\ Idle
    /\ LET s == retract(Solver, c)
       IN  /\ Leaves(s)
           /\ \/ pc' = "idle"
              \/ s.fails # {} /\ pc' = "aborted"
    /\ last' = [op |-> "retract", c |-> c]
    /\ asserted' = {k \in asserted : k.c # c}
    /\ nops' = nops + 1
    /\ UNCHANGED <<meaning, program, pivots>>

\* match is const: it reads the bounds and returns
Match(m) ==
    /\ Idle
    /\ DOMAIN m[1].vars \cup DOMAIN m[2].vars \subseteq DOMAIN vars
    /\ last' = [op |-> "match", ret |-> match(Solver, m[1], m[2]), l0 |-> m[1], l1 |-> m[2]]
    /\ nops' = nops + 1
    /\ fails' = {}
    /\ UNCHANGED <<vars, exprs, tableau, t_watches, cnfl, cons, pc, asserted, meaning, program, pivots>>

\* one iteration of the loop of check(): it returns, or it pivots and goes on
Iterate ==
    \E r \in {check_step(Solver)} :
        /\ Leaves(r.s)
        /\ pc' = IF r.done THEN "idle" ELSE "check"
        /\ last' = IF r.done THEN [op |-> "check", ret |-> r.ok] ELSE [op |-> "pivot"]
        /\ pivots' = IF r.done THEN 0 ELSE pivots + 1

Check ==
    /\ Idle
    /\ Iterate
    /\ nops' = nops + 1
    /\ UNCHANGED <<asserted, meaning, program>>

CheckStep ==
    /\ pc = "check"
    /\ pivots < MaxPivots
    /\ Iterate
    /\ UNCHANGED <<nops, asserted, meaning, program>>

Next ==
    \/ \E b \in VarBounds : NewVar(b)
    \/ \E l \in program.lins : NewVarLin(l)
    \/ \E a \in program.calls : NewEq(a)
    \/ \E a \in program.calls : NewLt(a)
    \/ \E a \in program.calls : NewGt(a)
    \/ \E c \in Constraints : AddConstraint(c)
    \/ \E c \in Constraints : Retract(c)
    \/ \E m \in program.matches : Match(m)
    \/ Check
    \/ CheckStep

Spec == Init /\ [][Next]_state

(***************************************************************************)
(* The properties.                                                         *)
(***************************************************************************)
within_bounds(x) ==
    ir_le(lb(Solver, x), val(Solver, x)) /\ ir_le(val(Solver, x), ub(Solver, x))
non_basic == DOMAIN vars \ DOMAIN tableau
returned(op, ret) == pc = "idle" /\ last.op = op /\ last.ret = ret

\* C1: at every moment, and so after every public operation whatever it
\* returned, every non-basic variable has its value between its effective
\* lower bound and its effective upper bound.
C1_NonBasicWithinBounds == \A x \in non_basic : within_bounds(x)

\* an assertion has moved a non-basic variable with rows watching it onto a new bound
C1_Witness ==
    /\ returned("new_gt", TRUE)
    /\ \E x \in non_basic :
          /\ lb(Solver, x) = ir(1)
          /\ val(Solver, x) = ir(1)
          /\ t_watches[x] # {}

\* C2: the value of every basic variable is the value of its row, that is
\* the sum of a_ij * val(x_j) over the row (with the row's constant, which
\* the rows built by assertions keep at zero).
C2_RowEquation == \A x_i \in DOMAIN tableau : val(Solver, x_i) = val_lin(Solver, tableau[x_i])

\* C3: when check() has returned true, every variable, basic or not, has its
\* value between its effective bounds.
C3_CheckTrueAllWithinBounds ==
    returned("check", TRUE) => \A x \in DOMAIN vars : within_bounds(x)

\* check() has pivoted and then returned true, with a bounded basic variable
C3_Witness ==
    /\ returned("check", TRUE)
    /\ \E x \in DOMAIN tableau : x \in user_vars
    /\ \E x \in DOMAIN tableau : lb(Solver, x) # ir_neg_inf \/ ub(Solver, x) # ir_pos_inf

(***************************************************************************)
(* Satisfiability of a set of stated constraints over the rationals, by    *)
(* elimination of the variables one after the other (Fourier-Motzkin).     *)
(* A half-space h stands for h.e <= 0, or h.e < 0 when h.strict.           *)
(***************************************************************************)
half(e, strict) == [e |-> e, strict |-> strict]
half_spaces(K) ==
    {half(k.e, k.rel = "lt") : k \in K} \cup
    {half(lin_scale(k.e, r_neg(one)), FALSE) : k \in {j \in K : j.rel = "eq"}}

\* the half-space without x that two half-spaces on opposite sides of x imply
eliminate(p, n, x) ==
    half(lin_add(lin_div(p.e, lin_coef(p.e, x)), lin_div(n.e, r_neg(lin_coef(n.e, x)))),
         p.strict \/ n.strict)

RECURSIVE feasible(_, _)
feasible(H, xs) ==
    IF xs = {}
    THEN \A h \in H : IF h.strict THEN r_is_negative(h.e.known_term)
                      ELSE ~r_is_positive(h.e.known_term)
    ELSE LET x == MinOf(xs)
             pos == {h \in H : r_is_positive(lin_coef(h.e, x))}
             neg == {h \in H : r_is_negative(lin_coef(h.e, x))}
         IN  feasible((H \ (pos \cup neg)) \cup {eliminate(p, n, x) : p \in pos, n \in neg},
                      xs \ {x})

satisfiable(K) == feasible(half_spaces(K), UNION {DOMAIN k.e.vars : k \in K})

\* C4: check() returns false only if the constraints asserted with success
\* and not retracted since have no common solution; equivalently, when they
\* have one (as after the retraction of the constraint that made them
\* infeasible) check() returns true.  A new_eq that returned false leaves
\* its lower-bound half in force, and check() then returns false on
\* y >= 1, x + y <= 0 because of the bound x >= 0 nobody has in force.
C4_FalseOnlyIfInfeasible == returned("check", FALSE) => ~satisfiable(asserted)

\* the constraints in force that an assertion stated with one of the handles cs
stated_with(cs) == {k \in asserted : k.c \in cs}

carries(rs, cs) == rs = {} \/ rs \cap cs # {}
lower_in_force(x, v) ==
    [e |-> lin([y \in {x} |-> r_neg(one)], v.rat),
     rel |-> IF r_is_positive(v.inf) THEN "lt" ELSE "le", c |-> None]
upper_in_force(x, v) ==
    [e |-> lin([y \in {x} |-> one], r_neg(v.rat)),
     rel |-> IF r_is_negative(v.inf) THEN "lt" ELSE "le", c |-> None]
bounds_in_force(cs) ==
    {lower_in_force(x, v) : <<x, v>> \in
        {p \in UNION {{<<x, v>> : v \in DOMAIN vars[x].lbs} : x \in DOMAIN vars} :
            carries(vars[p[1]].lbs[p[2]], cs)}} \cup
    {upper_in_force(x, v) : <<x, v>> \in
        {p \in UNION {{<<x, v>> : v \in DOMAIN vars[x].ubs} : x \in DOMAIN vars} :
            carries(vars[p[1]].ubs[p[2]], cs)}}
rows == {[e |-> lin_sub(term(x, 1), tableau[x]), rel |-> "eq", c |-> None] : x \in DOMAIN tableau}

stated(a) ==
    IF a.op = "new_eq" THEN sem(a.lhs, a.rhs, "eq", a.reason)
    ELSE IF a.op = "new_lt" THEN sem(a.lhs, a.rhs, IF a.strict THEN "lt" ELSE "le", a.reason)
    ELSE sem(a.rhs, a.lhs, IF a.strict THEN "lt" ELSE "le", a.reason)

reasons_of(x) ==
    UNION {vars[x].lbs[k] : k \in DOMAIN vars[x].lbs} \cup
    UNION {vars[x].ubs[k] : k \in DOMAIN vars[x].ubs}

\* C9: after retract(c), c is in no reason set of any bound entry of any
\* variable, however many bounds c had installed.
C9_RetractedReasonGone ==
    (pc = "idle" /\ last.op = "retract") => \A x \in DOMAIN vars : last.c \notin reasons_of(x)

\* retract(c) has removed two bounds of c from one variable and left it unbounded
C9_Witness ==
    /\ pc = "idle"
    /\ last.op = "retract"
    /\ \E x \in DOMAIN vars :
          /\ Cardinality({p \in cons[last.c].lbs \cup cons[last.c].ubs : p[1] = x}) >= 2
          /\ lb(Solver, x) = ir_neg_inf
          /\ ub(Solver, x) = ir_pos_inf

\* the bounds on x alone that the constraints in force state
on_var(x) == {k \in asserted : DOMAIN k.e.vars = {x}}
is_lower(k, x) == k.rel = "eq" \/ r_is_negative(lin_coef(k.e, x))
is_upper(k, x) == k.rel = "eq" \/ r_is_positive(lin_coef(k.e, x))
\* a strict bound on c * x is an infinitesimal away from the rational one, and
\* the infinitesimal is divided by c with it (2x < 1 bounds x by 1/2 - 1/2 eps)
bound_of(k, x) ==
    ir_div(inf_rational(r_neg(k.e.known_term), IF k.rel = "lt" THEN r_neg(one) ELSE zero),
           lin_coef(k.e, x))
lowers(x) == {k \in on_var(x) : is_lower(k, x)}
uppers(x) == {k \in on_var(x) : is_upper(k, x)}

\* C10: while the tableau has no row, so that an assertion on x alone is a
\* bound of x itself, and every bound in force on x was asserted with a
\* reason, the effective lower (upper) bound of x is the greatest (least) of
\* them: a dominated bound leaves the effective bound as it is, in either
\* order of assertion, and it is the effective bound once the tighter ones
\* are retracted.
C10_DominatedBoundKept ==
    (pc = "idle" /\ DOMAIN tableau = {}) =>
        \A x \in user_vars :
            /\ (lowers(x) # {} /\ \A k \in lowers(x) : k.c # None)
                  => lb(Solver, x) = MaxKey({bound_of(k, x) : k \in lowers(x)})
            /\ (uppers(x) # {} /\ \A k \in uppers(x) : k.c # None)
                  => ub(Solver, x) = MinKey({bound_of(k, x) : k \in uppers(x)})

\* the tighter of two lower bounds with different reasons has been retracted
\* and the dominated one, asserted while the tighter was in force or before, holds
C10_Witness ==
    /\ pc = "idle"
    /\ last.op = "retract"
    /\ last.c = "c1"
    /\ DOMAIN tableau = {}
    /\ ir(1) \in {p[2] : p \in cons["c1"].lbs}
    /\ lowers(x0) = {stated(x_ge_0_c0)}
    /\ lb(Solver, x0) = ir(0)

\* the lower and upper bound entries (keys and reason sets) of every variable of s
bound_entries(s) == [x \in DOMAIN s.vars |-> [lbs |-> s.vars[x].lbs, ubs |-> s.vars[x].ubs]]
\* the step is the public call op, and it returns
called(op) == nops' = nops + 1 /\ pc' = "idle" /\ last'.op = op

\* C11: retraction is order-independent: when retract(c) returns, retracting
\* any d after it leaves every variable with the bound entries (keys and
\* reason sets) that retract(d) followed by retract(c) leaves from the state
\* before, in whatever order c and d were asserted.
C11_RetractionOrderIndependent ==
    [][called("retract") =>
         \A d \in Constraints :
             bound_entries(retract(Solver', d)) =
                 bound_entries(retract(retract(Solver, d), last'.c))]_state

\* a handle in force has been retracted while another handle in force bounds
\* the same variable on the same side
C11_Witness ==
    /\ pc = "idle"
    /\ last.op = "retract"
    /\ meaning[last.c] # {}
    /\ \E d \in Constraints \ {last.c} :
          /\ stated_with({d}) # {}
          /\ \E p \in cons[last.c].lbs, q \in cons[d].lbs : p[1] = q[1] /\ p[2] # q[2]

\* the solver and the handles are left as they were, and no assertion of the code fails
unchanged_solver ==
    /\ fails' = {}
    /\ UNCHANGED <<vars, exprs, tableau, t_watches, cnfl, cons>>

\* C12: retraction is idempotent: a retract(c) made right after a retract(c)
\* leaves the solver and c as the first one left them and violates no
\* assertion of the code (it asks no variable to unset a bound key that is
\* absent).
C12_RetractIdempotent ==
    [][(pc = "idle" /\ last.op = "retract" /\ nops' = nops + 1
            /\ last'.op = "retract" /\ last'.c = last.c)
         => pc' = "idle" /\ unchanged_solver]_state

\* the effective bounds of every variable of s
effective_bounds(s) == [x \in DOMAIN s.vars |-> <<lb(s, x), ub(s, x)>>]
\* what check() would return from s
verdict(s) == check_all(s, MaxPivots).ok

no_records == [lbs |-> {}, ubs |-> {}]
\* add_constraint on a handle with no recorded bounds returns true and changes no bound
empty_add_is_noop ==
    (called("add_constraint") /\ cons[last'.c] = no_records) =>
        last'.ret /\ bound_entries(Solver') = bound_entries(Solver) /\ cons' = cons

C15_FailedAddNoEffect ==
    [][(called("add_constraint") /\ ~last'.ret) =>
         /\ effective_bounds(Solver') = effective_bounds(Solver)
         /\ \A x \in DOMAIN vars : last'.c \notin reasons_of(x)']_state

Assertions == {"new_eq", "new_lt", "new_gt"}

\* C16: new_eq, new_lt and new_gt return false only if the constraint they
\* state has no common solution with the constraints asserted with success
\* and not retracted since; a bound left by a constraint that is no longer
\* in force never makes them return false.
C16_FalseOnlyIfInconsistent ==
    (pc = "idle" /\ last.op \in Assertions /\ ~last.ret)
        => ~satisfiable(asserted \cup {stated(last.a)})

\* C17: for an assertion whose expression lhs - rhs has no variable and the
\* constant k, new_eq returns true iff k = 0 and new_lt returns true iff
\* k < 0, or k = 0 and the inequality is not strict; the call changes
\* nothing in the solver.
C17_ConstantAssertions ==
    [][(\E op \in Assertions : called(op)) =>
         LET k == stated(last'.a)
         IN  DOMAIN k.e.vars = {} =>
                 /\ last'.ret = IF k.rel = "eq" THEN r_is_zero(k.e.known_term)
                                 ELSE \/ r_is_negative(k.e.known_term)
                                      \/ r_is_zero(k.e.known_term) /\ k.rel = "le"
                 /\ unchanged_solver]_state

\* the expression of the assertion a once the basic variables are replaced by their rows
reduced(a) == substitute(Solver, stated(a).e, DOMAIN stated(a).e.vars).expr
\* the value -k/c at which c*x + k is zero
root(e, x) == inf_rational(r_div(r_neg(e.known_term), e.vars[x]), zero)
\* new_eq has returned true on c*x + k and x is at -k/c with both effective bounds
fixed_at_root(e, x) ==
    /\ lb(Solver', x) = root(e, x)
    /\ ub(Solver', x) = root(e, x)
    /\ val(Solver', x) = root(e, x)

upper_at(b, r, strict) ==
    b.rat = r /\ IF strict THEN r_is_negative(b.inf) ELSE r_is_zero(b.inf)
lower_at(b, r, strict) ==
    b.rat = r /\ IF strict THEN r_is_positive(b.inf) ELSE r_is_zero(b.inf)

\* C19: when lhs - rhs reduces to c*x + k over one variable, new_lt (and
\* new_gt, with the sides swapped) that returns true leaves the upper bound
\* of x at -k/c when c > 0, and the lower bound of x at -k/c when c < 0,
\* unless the bound of x was already as tight; a strict inequality installs
\* -k/c less a positive multiple of delta as upper bound, -k/c plus a
\* positive multiple of delta as lower bound; the other bound of x is left
\* alone; and the call returns false when -k/c is beyond the opposite bound
\* of x, as x >= 1 after x < 1.
C19_LtTightensBound ==
    [][(called("new_lt") \/ called("new_gt")) =>
         \A e \in {reduced(last'.a)} : Size(e.vars) = 1 =>
         \A x \in DOMAIN e.vars :
         \A r \in {root(e, x).rat}, strict \in {last'.a.strict} :
         \A lo \in {lb(Solver, x)}, hi \in {ub(Solver, x)} :
         \A lo1 \in {lb(Solver', x)}, hi1 \in {ub(Solver', x)} :
             IF r_is_positive(e.vars[x])
             THEN /\ last'.ret =>
                        /\ lo1 = lo
                        /\ hi1 = hi \/ upper_at(hi1, r, strict)
                        /\ r_lt(hi1.rat, r) \/ upper_at(hi1, r, strict) \/ upper_at(hi1, r, TRUE)
                        /\ r_lt(r, hi.rat) => upper_at(hi1, r, strict)
                  /\ ir_lt(inf_rational(r, zero), lo) => ~last'.ret
             ELSE /\ last'.ret =>
                        /\ hi1 = hi
                        /\ lo1 = lo \/ lower_at(lo1, r, strict)
                        /\ r_lt(r, lo1.rat) \/ lower_at(lo1, r, strict) \/ lower_at(lo1, r, TRUE)
                        /\ r_lt(lo.rat, r) => lower_at(lo1, r, strict)
                  /\ ir_gt(inf_rational(r, zero), hi) => ~last'.ret]_state

\* 2*x0 >= 1 has returned false after 2*x0 < 1 gave x0 the upper bound 1/2 - delta/2
C19_Witness ==
    /\ returned("new_gt", FALSE)
    /\ last.a = two_x_ge_1
    /\ ub(Solver, x0) = inf_rational(<<1, 2>>, <<-1, 2>>)
    /\ lb(Solver, x0) = ir_neg_inf

\* C20: new_var(expr) called with an expression of two or more variables
\* for which a slack exists (made by an earlier new_var(expr) or by an
\* assertion, whatever was called since) returns that slack, creates no
\* variable and no tableau row, and leaves the bounds and the value of the
\* slack, like the rest of the solver, unchanged.
C20_SlackReuse ==
    [][(called("new_var_lin") /\ to_string(last'.l) \in DOMAIN exprs) =>
         /\ last'.ret = exprs[to_string(last'.l)]
         /\ unchanged_solver]_state

\* new_var(x0 + x1) has returned the slack that exists for x0 + x1, after an
\* assertion has bounded the slack and a pivot of check() has taken it out
\* of the basis
C20_Witness ==
    /\ pc = "idle"
    /\ last.op = "new_var_lin"
    /\ last.l = x_plus_y
    /\ last.ret = 2
    /\ Size(vars) = 3
    /\ ub(Solver, 2) = ir(0)
    /\ 2 \notin DOMAIN tableau

\* the step is an assertion (new_eq, new_lt or new_gt), and it returns
assertion_called == called("new_eq") \/ called("new_lt") \/ called("new_gt")
\* the expression mentions two or more variables
compound(e) == Size(e.vars) >= 2

\* C21: an assertion whose expression lhs - rhs mentions two or more
\* variables, made while a constraint on the same expression (the same
\* coefficients) is in force, creates no variable: the slack of the first
\* assertion serves the second, whatever assertions and pivots of check()
\* came between them.
C21_OneSlackPerExpression ==
    [][assertion_called =>
          \A k \in {stated(last'.a)} :
              (compound(k.e) /\ \E j \in asserted : j.e.vars = k.e.vars)
                  => Size(vars') = Size(vars)]_state

\* the value ranges of l0 and l1, each computed from the bounds of its own
\* variables, have a common point
ranges_overlap(s, l0, l1) ==
    ir_le(lb_lin(s, l0), ub_lin(s, l1)) /\ ir_le(lb_lin(s, l1), ub_lin(s, l0))

ranges_disjoint(s, l0, l1) ==
    ir_lt(ub_lin(s, l0), lb_lin(s, l1)) \/ ir_lt(ub_lin(s, l1), lb_lin(s, l0))

BoundedLins == SlackLins \cup {term(x0, 1), term(x0, -2), x_minus_5, x_plus_20, const(3)}
\* c * lb(v) for c > 0 and c * ub(v) for c < 0, nothing for a variable l leaves out
low_term(l, v) ==
    IF r_is_positive(lin_coef(l, v)) THEN ir_mul(lb(Solver, v), lin_coef(l, v))
    ELSE IF r_is_negative(lin_coef(l, v)) THEN ir_mul(ub(Solver, v), lin_coef(l, v))
    ELSE ir_zero
high_term(l, v) ==
    IF r_is_positive(lin_coef(l, v)) THEN ir_mul(ub(Solver, v), lin_coef(l, v))
    ELSE IF r_is_negative(lin_coef(l, v)) THEN ir_mul(lb(Solver, v), lin_coef(l, v))
    ELSE ir_zero
val_term(l, v) ==
    IF v \in DOMAIN l.vars THEN ir_mul(val(Solver, v), l.vars[v]) ELSE ir_zero
\* known_term + the term of x0 + the term of x1 + the term of the first slack
over_terms(l, t(_, _)) ==
    ir_add(ir_add(ir_add(inf_rational(l.known_term, zero), t(l, x0)), t(l, x1)), t(l, 2))

\* C24: for every expression l over the variables created so far, lb(l) is
\* the known term plus c * lb(v) over the terms with c > 0 plus c * ub(v)
\* over the terms with c < 0, ub(l) is the dual and val(l) is the known term
\* plus c * val(v); lb(l) <= val(l) <= ub(l) whenever every variable of l is
\* within its bounds; with x in [0, 10], lb(x - 5) = -5 and ub(x - 5) = 5.
C24_ExpressionBounds ==
    \A l \in {k \in BoundedLins : DOMAIN k.vars \subseteq DOMAIN vars} :
        \A lo \in {lb_lin(Solver, l)}, hi \in {ub_lin(Solver, l)}, at \in {val_lin(Solver, l)} :
            /\ lo = over_terms(l, low_term)
            /\ hi = over_terms(l, high_term)
            /\ at = over_terms(l, val_term)
            /\ (\A v \in DOMAIN l.vars : within_bounds(v)) => ir_le(lo, at) /\ ir_le(at, hi)
            /\ (l = x_minus_5 /\ lb(Solver, x0) = ir(0) /\ ub(Solver, x0) = ir(10)) =>
                  lo = ir(-5) /\ hi = ir(5)

\* x is in [0, 10] and at its lower bound when match compares x with x - 5
C24_Witness ==
    /\ pc = "idle"
    /\ x0 \in DOMAIN vars
    /\ lb(Solver, x0) = ir(0)
    /\ ub(Solver, x0) = ir(10)
    /\ lb_lin(Solver, x_minus_5) = ir(-5)
    /\ ub_lin(Solver, x_minus_5) = ir(5)
    /\ val_lin(Solver, x_minus_5) = ir(-5)
    /\ last.op = "match"

\* C25: new_var(lb, ub) with lb <= ub violates no assertion, returns the
\* number of variables created before it, leaves the variables there were
\* as they are, and the new variable has the effective lower bound lb and
\* the effective upper bound ub.
C25_NewVarBounds ==
    [][called("new_var") =>
          /\ fails' = {}
          /\ last'.ret = Size(vars)
          /\ DOMAIN vars' = DOMAIN vars \cup {last'.ret}
          /\ \A x \in DOMAIN vars : vars'[x] = vars[x]
          /\ lb(Solver', last'.ret) = last'.lo
          /\ ub(Solver', last'.ret) = last'.hi]_state

\* the step belongs to check(): an iteration that pivots or the one that returns
check_step_taken == last'.op \in {"check", "pivot"} /\ (pc = "check" \/ nops' = nops + 1)

BoundValues == {ir(0), ir(1), inf_rational(<<1, 2>>, <<1, 2>>)}

\* C27: in every state the operations reach, set_lb(x, v, reason) fails iff
\* v is greater than the effective upper bound of x and set_ub(x, v, reason)
\* fails iff v is less than the effective lower bound of x, with a reason
\* or without one; a call that fails leaves the solver as it was: no bound
\* entry added to x, the value of x unchanged, nothing recorded in the reason.
C27_SetBoundFailure ==
    pc = "idle" =>
        \A x \in DOMAIN vars, v \in BoundValues, reason \in Reasons :
            \A lo \in {set_lb(Solver, x, v, reason)}, hi \in {set_ub(Solver, x, v, reason)} :
                /\ lo.ok = ~ir_gt(v, ub(Solver, x))
                /\ hi.ok = ~ir_lt(v, lb(Solver, x))
                /\ ~lo.ok => lo.s = Solver
                /\ ~hi.ok => hi.s = Solver

\* an assertion with a reason has returned false on a variable that keeps the
\* bounds of other reasons and records nothing for the refused one
C27_Witness ==
    /\ pc = "idle"
    /\ last.op \in {"new_lt", "new_gt"}
    /\ ~last.ret
    /\ last.a.reason # None
    /\ cons[last.a.reason].lbs = {}
    /\ cons[last.a.reason].ubs = {}
    /\ \E x \in DOMAIN vars : ~ir_is_infinite(lb(Solver, x)) \/ ~ir_is_infinite(ub(Solver, x))

C29_WatchesExact ==
    /\ DOMAIN t_watches = DOMAIN vars
    /\ \A v \in DOMAIN vars :
          t_watches[v] = {r \in DOMAIN tableau : v \in DOMAIN tableau[r].vars}
    /\ \A r \in DOMAIN tableau : \A v \in DOMAIN tableau[r].vars : tableau[r].vars[v] # zero

\* a pivot of check() has cancelled a term of the row of a slack, which is
\* left with one variable, and a user variable watches another row but not that one
C29_Witness ==
    /\ last.op = "pivot"
    /\ \E r \in slacks \cap DOMAIN tableau :
          /\ Size(tableau[r].vars) = 1
          /\ \E v \in user_vars \ DOMAIN tableau : t_watches[v] # {} /\ r \notin t_watches[v]

\* C30: at every moment every row of the tableau mentions non-basic
\* variables only, no basic variable is watched by a row, and no pivot has
\* found the variable that leaves the basis watched; new_var(lin) on an
\* expression over a basic variable, such as an earlier slack, keeps this.
C30_RowsOverNonBasic ==
    /\ \A r \in DOMAIN tableau : DOMAIN tableau[r].vars \cap DOMAIN tableau = {}
    /\ \A x \in DOMAIN tableau : t_watches[x] = {}
    /\ "pivot: t_watches.at(x_i).empty()" \notin fails

\* C31: at every moment every row of the tableau has the known term zero,
\* and no pivot has found a row to rewrite with another known term; a row
\* that new_var(lin) installs for an expression with a constant is no
\* exception.
C31_RowsKnownTermZero ==
    /\ \A r \in DOMAIN tableau : tableau[r].known_term = zero
    /\ "pivot: c_l.known_term == 0" \notin fails

\* the step is a pivot step of check(): an iteration of its loop that does not return
pivoted == last'.op = "pivot" /\ pc' = "check"
\* the basic variables whose value is outside their bounds
out_of_bounds_rows(s) == Cardinality(violating(s))

\* C32 (as stated): each pivot step of check() strictly decreases, in
\* lexicographic order, the pair (number of basic variables whose value is
\* outside their bounds, smallest id of such a variable).
C32_PivotDecreasesPair ==
    [][pivoted =>
          \/ out_of_bounds_rows(Solver') < out_of_bounds_rows(Solver)
          \/ /\ out_of_bounds_rows(Solver') = out_of_bounds_rows(Solver)
             /\ MinOf(violating(Solver')) < MinOf(violating(Solver))]_state

\* C32 (amended): each pivot step of check() takes the out-of-bounds basic
\* variable of smallest id out of the basis and leaves it at the bound it
\* violated, hence within its bounds.
C32_PivotRepairsSmallest ==
    [][pivoted =>
          \A x_i \in {MinOf(violating(Solver))} :
              /\ x_i \notin DOMAIN tableau'
              /\ val(Solver', x_i) = (IF ir_lt(val(Solver, x_i), lb(Solver, x_i))
                                      THEN lb(Solver, x_i) ELSE ub(Solver, x_i))
              /\ ~out_of_bounds(Solver', x_i)]_state

\* a pivot step has put the violating variable on its bound and out of the
\* basis, and another basic variable is out of bounds after it
C32_Witness ==
    /\ pc = "check"
    /\ last.op = "pivot"
    /\ violating(Solver) # {}
    /\ \E x \in slacks \ DOMAIN tableau : val(Solver, x) = ub(Solver, x) \/ val(Solver, x) = lb(Solver, x)

\* the assertions at the entry of pivot_and_update
PivotAndUpdateAssertions ==
    {"pivot_and_update: is_basic(x_i)", "pivot_and_update: !is_basic(x_j)",
     "pivot_and_update: lb(x_j) <= v <= ub(x_j)", "pivot_and_update: at"}

\* C33: every call pivot_and_update(x_i, x_j, v) that check() makes
\* satisfies the assertions at its entry: x_i is basic, x_j is non-basic and
\* has a term in the row of x_i, and v, the bound of x_i that is violated,
\* lies within [lb(x_j), ub(x_j)].
C33_PivotAndUpdateAssertions == fails \cap PivotAndUpdateAssertions = {}

\* C34: check(), whether it returns true or false, changes no lower or upper
\* bound entry (keys and reason sets) of any variable and no bound recorded
\* in any constraint; and the step in which it returns, reporting
\* infeasibility included, leaves the values, the rows and the watch index as
\* the pivots made before it left them.
C34_CheckKeepsBounds ==
    [][check_step_taken =>
          /\ bound_entries(Solver') = bound_entries(Solver)
          /\ cons' = cons
          /\ DOMAIN vars' = DOMAIN vars
          /\ last'.op = "check" =>
                /\ tableau' = tableau
                /\ t_watches' = t_watches
                /\ \A x \in DOMAIN vars : val(Solver', x) = val(Solver, x)]_state

\* check() has pivoted and is about to report infeasibility
C34_Witness ==
    /\ pc = "check"
    /\ pivots >= 1
    /\ \A r \in {check_step(Solver)} : r.done /\ ~r.ok
    /\ \E x \in DOMAIN vars : DOMAIN vars[x].lbs # {} \/ DOMAIN vars[x].ubs # {}
    /\ \E c \in DOMAIN cons : cons[c].lbs # {} \/ cons[c].ubs # {}

\* the entries the keys of m at or beyond v keep, and v with no reason when it is new
tightened(m, v, kept(_, _)) ==
    [k \in {j \in DOMAIN m : kept(j, v)} \cup {v} |-> IF k \in DOMAIN m THEN m[k] ELSE {}]

\* C35: set_lb(x, v) without a reason, when it succeeds, removes exactly the
\* lower-bound entries of x with key strictly below v and installs key v
\* with an empty reason set; the entries with key >= v, the reasons at key v
\* included, and every other bound entry are left as they were. Dually,
\* set_ub(x, v) without a reason removes exactly the keys strictly above v.
C35_AnonymousTightening ==
    pc = "idle" =>
        \A x \in DOMAIN vars, v \in BoundValues :
            \A lo \in {set_lb(Solver, x, v, None)}, hi \in {set_ub(Solver, x, v, None)} :
                /\ lo.ok => bound_entries(lo.s) =
                       [bound_entries(Solver) EXCEPT ![x].lbs = tightened(@, v, ir_ge)]
                /\ hi.ok => bound_entries(hi.s) =
                       [bound_entries(Solver) EXCEPT ![x].ubs = tightened(@, v, ir_le)]

\* the handles of the constraints in force
in_force == {k.c : k \in asserted} \ {None}
UnsetAssertions ==
    {"var::unset_lb: lbs.find(v) != lbs.end()", "var::unset_ub: ubs.find(v) != ubs.end()"}

\* C36: for every constraint c that is asserted and not retracted, every
\* (x, v) recorded in the lbs (ubs) of c has v among the keys of the lower
\* (upper) bound entries of x, with c in the reason set of that key; hence
\* retract(c) fails no assertion of unset_lb / unset_ub, also after a
\* tightening of x without a reason that came after c.
C36_RecordedBoundsPresent ==
    pc = "idle" =>
        \A c \in in_force :
            /\ \A p \in cons[c].lbs :
                   p[2] \in DOMAIN vars[p[1]].lbs /\ c \in vars[p[1]].lbs[p[2]]
            /\ \A p \in cons[c].ubs :
                   p[2] \in DOMAIN vars[p[1]].ubs /\ c \in vars[p[1]].ubs[p[2]]
            /\ retract(Solver, c).fails \cap UnsetAssertions = {}

\* C37: after any sequence of public operations, every variable has its
\* effective lower bound at or below its effective upper bound; more
\* strongly, every key among its lower bounds is at or below every key among
\* its upper bounds, and the assertions at the entry of var::set_lb and
\* var::set_ub never fail.
C37_BoundsNeverCross ==
    /\ \A x \in DOMAIN vars :
           /\ ir_le(lb(Solver, x), ub(Solver, x))
           /\ \A lo \in DOMAIN vars[x].lbs, hi \in DOMAIN vars[x].ubs : ir_le(lo, hi)
    /\ "var::set_lb: v <= get_ub()" \notin fails
    /\ "var::set_ub: v >= get_lb()" \notin fails
\* a bound that would cross has been refused on a variable whose lower and
\* upper bound entries, dominated ones among them, meet at one value
C37_Witness ==
    /\ pc = "idle"
    /\ last.op \in {"new_lt", "new_gt", "new_eq", "add_constraint"}
    /\ ~last.ret
    /\ \E x \in DOMAIN vars :
          /\ Cardinality(DOMAIN vars[x].lbs) + Cardinality(DOMAIN vars[x].ubs) >= 3
          /\ lb(Solver, x) = ub(Solver, x)

\* retract(c) on the entries m (before) and n (after) of one variable: a key
\* that c shares with other reasons stays with the other reasons, and stays
\* the effective bound eff when it was; a key that c alone supports goes
shared_key_kept(m, n, c, eff_before, eff_after) ==
    \A v \in DOMAIN m :
        c \in m[v] =>
            IF m[v] = {c} THEN v \notin DOMAIN n
            ELSE /\ v \in DOMAIN n
                 /\ n[v] = m[v] \ {c}
                 /\ eff_before = v => eff_after = v

\* C38: when two different reasons installed the same bound value v on the
\* same variable x, retracting one of them leaves the entry at key v in
\* place with the other reason, and v remains the effective bound of x when
\* it was; the key is removed when its last reason is retracted.
C38_SharedKeySurvivesRetract ==
    [][called("retract") =>
          \A x \in DOMAIN vars :
              /\ shared_key_kept(vars[x].lbs, vars'[x].lbs, last'.c,
                                  lb(Solver, x), lb(Solver', x))
              /\ shared_key_kept(vars[x].ubs, vars'[x].ubs, last'.c,
                                  ub(Solver, x), ub(Solver', x))]_state

\* one of two reasons of the effective lower bound has been retracted and
\* the other keeps the bound in force
C38_Witness ==
    /\ pc = "idle"
    /\ last.op = "retract"
    /\ \E x \in DOMAIN vars :
          /\ DOMAIN vars[x].lbs # {}
          /\ \E d \in Constraints \ {last.c} :
                /\ vars[x].lbs[lb(Solver, x)] = {d}
                /\ <<x, lb(Solver, x)>> \in cons[last.c].lbs \cap cons[d].lbs

\* C39: an assertion has no partial effect: when new_eq returns false, the
\* bound entries and the value of every variable, the tableau and the bounds
\* recorded in the reason are what they were before the call.
C39_FailedNewEqNoEffect ==
    [][(called("new_eq") /\ ~last'.ret) =>
          /\ vars' = vars
          /\ tableau' = tableau
          /\ cons' = cons]_state

====
